---- MODULE Spec2Model ----
(***************************************************************************)
(* Model of the concurrent key-value store of main.go: the generic         *)
(* KVStore (a Go map guarded by one sync.RWMutex), its four operations     *)
(* Put, Get, Update, Delete and the unlocked helper Has.                   *)
(*                                                                         *)
(* Every caller (goroutine) runs one operation at a time.  An operation    *)
(* is a sequence of atomic steps: the call, the acquisition of the mutex,  *)
(* each access to the map, and the deferred release together with the      *)
(* return.  The history of calls and results is recorded so that           *)
(* properties over whole executions can be stated.                         *)
(***************************************************************************)
EXTENDS Integers, Sequences, FiniteSets, TLC

\* Number of concurrent callers (goroutines serving requests).
NumCallers == 3

\* Number of operations invoked in one execution.
MaxOps == 3

Callers == 1..NumCallers

\* Keys and values are opaque to the store (K comparable, V any); the
\* server instantiates both with string.  "" is the zero value of V.
Keys == {"A", "B"}

Values == {"", "1"}

Zero == ""

NoValue == "-"

VARIABLES
    data,       \* s.data: the Go map, a function from the present keys to values
    mu,         \* s.mu: the reader-writer mutex
    pc,         \* position of each caller in its operation
    call,       \* the operation each caller runs, its arguments and its local value
    hist,       \* the calls made so far, with their results
    recording   \* whether the calls are recorded in hist

vars == <<data, mu, pc, call, hist, recording>>

NoCall == [kind |-> "-", key |-> "-", val |-> NoValue, value |-> NoValue, h |-> 0]

\* NewKVStore: an empty map and a zero-valued (unlocked) mutex.
NewKVStore == [data |-> <<>>, mu |-> [w |-> {}, readers |-> {}]]

\* The store as constructed, before any call.
Start ==
    /\ data = NewKVStore.data
    /\ mu = NewKVStore.mu
    /\ pc = [c \in Callers |-> "idle"]
    /\ call = [c \in Callers |-> NoCall]
    /\ hist = <<>>

\* Executions of at most MaxOps calls, all recorded.
Init == Start /\ recording = TRUE

\* Executions in which calls keep arriving, unrecorded.
InitLive == Start /\ recording = FALSE

\* A map index that yields the zero value for every key.
MapIndexNoValue(key) == [value |-> Zero, ok |-> key \in DOMAIN data]

\* A map index that reports every key as present.
MapIndexOkAlways(key) ==
    [value |-> IF key \in DOMAIN data THEN data[key] ELSE Zero, ok |-> TRUE]

\* A map index that takes the zero value for absence.
MapIndexByZero(key) ==
    LET value == IF key \in DOMAIN data THEN data[key] ELSE Zero
    IN [value |-> value, ok |-> value # Zero]

\* value, ok := s.data[key]: the zero value and false when the key is absent.
MapIndex(key) ==
    IF key \in DOMAIN data
      THEN [value |-> data[key], ok |-> TRUE]
      ELSE [value |-> Zero, ok |-> FALSE]

\* An existence check that always succeeds.
HasAlways(key) == TRUE

\* Has: _, ok := s.data[key]; return ok.  It takes no lock.
Has(key) == MapIndex(key).ok

\* An assignment that appends to the stored string: s.data[key] += value.
StoreAppend(key, value) ==
    LET old == IF key \in DOMAIN data THEN data[key] ELSE Zero
        cat == IF old = Zero THEN value ELSE IF value = Zero THEN old ELSE "11"
    IN [k \in DOMAIN data \cup {key} |-> IF k = key THEN cat ELSE data[k]]

\* An assignment that replaces the whole map by the one entry.
StoreAlone(key, value) == [k \in {key} |-> value]

\* An assignment that inserts but does not overwrite.
StoreIfAbsent(key, value) ==
    [k \in DOMAIN data \cup {key} |-> IF k \in DOMAIN data THEN data[k] ELSE value]

\* s.data[key] = value
Store(key, value) == [k \in DOMAIN data \cup {key} |-> IF k = key THEN value ELSE data[k]]

\* A delete that clears the map.
RemoveAll(key) == <<>>

\* A delete that removes nothing.
RemoveNothing(key) == data

\* delete(s.data, key)
Remove(key) == [k \in DOMAIN data \ {key} |-> data[k]]

Done == {i \in 1..Len(hist) : hist[i].done}

(***************************************************************************)
(* sync.RWMutex.  mu.w is the caller that has called Lock and got past    *)
(* the other writers: it holds the lock or waits for the readers that     *)
(* hold it to leave.  mu.readers are the callers holding the lock in      *)
(* shared mode.  A call of RLock made while a writer holds or awaits the  *)
(* lock blocks until that writer has released it.                         *)
(***************************************************************************)

\* A Lock that does not wait for the other writers.
WriterFreeUnchecked == TRUE

\* Lock proceeds past the other writers when none of them holds or awaits the lock.
WriterFree == mu.w = {}

\* A Lock that does not wait for the readers to leave.
ReadersGoneUnchecked == TRUE

\* The writer enters once the readers that held the lock have released it.
ReadersGone == mu.readers = {}

\* RLock blocks while a writer holds or awaits the lock.
WriterPending == mu.w # {}

\* An Update that takes the mutex in shared mode, as Get does.
LockModeUpdateShared(kind) == IF kind \in {"Get", "Update"} THEN "RLock" ELSE "Lock"

\* Every operation taking the mutex in shared mode.
LockModeShared(kind) == "RLock"

\* The mode in which each operation takes s.mu.
LockMode(kind) == IF kind = "Get" THEN "RLock" ELSE "Lock"

\* A Lock that lets its caller in whoever holds the lock.
LockCallUnguarded(c) == [mu |-> [mu EXCEPT !.w = {c}], pc |-> "body"]

\* s.mu.Lock() as called by c: past the other writers if none holds or awaits
\* the lock, and then in at once if no reader holds it; blocked otherwise.
LockCall(c) ==
    IF WriterFree
      THEN [mu |-> [mu EXCEPT !.w = {c}],
            pc |-> IF ReadersGone THEN "body" ELSE "LockWait"]
      ELSE [mu |-> mu, pc |-> "Lock"]

\* An RLock that overtakes a writer waiting for the readers to leave.
RLockCallBarging(c) ==
    IF WriterPending /\ ReadersGone
      THEN [mu |-> mu, pc |-> "RLockWait"]
      ELSE [mu |-> [mu EXCEPT !.readers = @ \cup {c}], pc |-> "body"]

\* An RLock that admits one reader at a time.
RLockCallExclusive(c) ==
    IF WriterPending \/ ~ReadersGone
      THEN [mu |-> mu, pc |-> "RLockWait"]
      ELSE [mu |-> [mu EXCEPT !.readers = @ \cup {c}], pc |-> "body"]

\* s.mu.RLock() as called by c: in, or blocked behind a writer.
RLockCall(c) ==
    IF WriterPending
      THEN [mu |-> mu, pc |-> "RLockWait"]
      ELSE [mu |-> [mu EXCEPT !.readers = @ \cup {c}], pc |-> "body"]

(***************************************************************************)
(* The server.  Each request is served by a handler that makes one call   *)
(* of the store and answers either with a JSON body under http.StatusOK   *)
(* or by returning the store's error to the framework.                    *)
(***************************************************************************)

NoResponse == [status |-> "-", body |-> "-"]

\* handlePut: s.Storage.Put(key, value); return c.JSON(http.StatusOK, {"msg": "ok"})
handlePut(err) == [status |-> "StatusOK", body |-> "msg"]

\* handleGet: if err != nil { return err }; return c.JSON(http.StatusOK, {"value": value})
handleGet(err) ==
    IF err THEN [status |-> "error", body |-> "-"]
           ELSE [status |-> "StatusOK", body |-> "value"]

\* handleUpdate: s.Storage.Update(key, value); return c.JSON(http.StatusOK, {"updated-value": value})
handleUpdate(err) == [status |-> "StatusOK", body |-> "updated-value"]

\* handleDelete: s.Storage.Delete(key); return c.JSON(http.StatusOK, {"deleted-entry": key})
handleDelete(err) == [status |-> "StatusOK", body |-> "deleted-entry"]

\* The routes of Start: the handler of each operation.
Handle(kind, err) ==
    CASE kind = "Put" -> handlePut(err)
      [] kind = "Get" -> handleGet(err)
      [] kind = "Update" -> handleUpdate(err)
      [] kind = "Delete" -> handleDelete(err)

\* Idle callers are interchangeable: the next call is made by the first of them.
FirstIdle(c) == pc[c] = "idle" /\ \A d \in 1..(c - 1) : pc[d] # "idle"

\* Keys are interchangeable: the first recorded call names key "A".
FirstKey(key) == (recording /\ hist = <<>>) => key = "A"

\* A caller invokes an operation, whose first statement takes the mutex.  A
\* recorded call is entered in hist with the calls that had returned before it.
Invoke(c, kind, key, val) ==
    /\ FirstIdle(c)
    /\ FirstKey(key)
    /\ IF recording
          THEN /\ Len(hist) < MaxOps
               /\ hist' = Append(hist, [kind |-> kind, key |-> key, val |-> val,
                                        pre |-> Done, done |-> FALSE,
                                        value |-> NoValue, err |-> FALSE,
                                        resp |-> NoResponse])
          ELSE hist' = hist
    /\ call' = [call EXCEPT ![c] = [kind |-> kind, key |-> key, val |-> val,
                                    value |-> NoValue,
                                    h |-> IF recording THEN Len(hist) + 1 ELSE 0]]
    /\ LET got == IF LockMode(kind) = "Lock" THEN LockCall(c) ELSE RLockCall(c) IN
        /\ mu' = got.mu
        /\ pc' = [pc EXCEPT ![c] = got.pc]
    /\ UNCHANGED <<data, recording>>

\* s.mu.Lock(), blocked behind another writer, which has released the lock.
Lock(c) ==
    /\ pc[c] = "Lock"
    /\ WriterFree
    /\ mu' = LockCall(c).mu
    /\ pc' = [pc EXCEPT ![c] = LockCall(c).pc]
    /\ UNCHANGED <<data, call, hist, recording>>

\* s.mu.Lock(), blocked behind the readers: the last of them has left.
LockWait(c) ==
    /\ pc[c] = "LockWait"
    /\ ReadersGone
    /\ pc' = [pc EXCEPT ![c] = "body"]
    /\ UNCHANGED <<data, mu, call, hist, recording>>

\* s.mu.Unlock() by c: the readers blocked behind the writer are let in, then
\* the other writers may proceed.
Woken == {d \in Callers : pc[d] = "RLockWait"}

UnlockBy(c) == [w |-> mu.w \ {c}, readers |-> mu.readers \cup Woken]

\* s.mu.RUnlock() by c.
RUnlockBy(c) == [mu EXCEPT !.readers = @ \ {c}]

\* A return that releases the mutex only when the call succeeded.
ReturnLeakOnError(c, value, err) ==
    /\ hist' = IF recording
                 THEN [hist EXCEPT ![call[c].h] =
                          [@ EXCEPT !.done = TRUE, !.value = value, !.err = err,
                                    !.resp = Handle(call[c].kind, err)]]
                 ELSE hist
    /\ recording' = recording
    /\ call' = [call EXCEPT ![c] = NoCall]
    /\ IF err
          THEN /\ mu' = mu
               /\ pc' = [pc EXCEPT ![c] = "idle"]
          ELSE IF LockMode(call[c].kind) = "Lock"
                 THEN /\ mu' = UnlockBy(c)
                      /\ pc' = [d \in Callers |-> IF d = c THEN "idle"
                                                   ELSE IF d \in Woken THEN "body" ELSE pc[d]]
                 ELSE /\ mu' = RUnlockBy(c)
                      /\ pc' = [pc EXCEPT ![c] = "idle"]

\* The return of c's call with (value, error), after the deferred release of
\* the mutex in the mode the operation took it, and the response the handler
\* that made the call then gives.
Return(c, value, err) ==
    /\ hist' = IF recording
                 THEN [hist EXCEPT ![call[c].h] =
                          [@ EXCEPT !.done = TRUE, !.value = value, !.err = err,
                                    !.resp = Handle(call[c].kind, err)]]
                 ELSE hist
    /\ recording' = recording
    /\ call' = [call EXCEPT ![c] = NoCall]
    /\ IF LockMode(call[c].kind) = "Lock"
          THEN /\ mu' = UnlockBy(c)
               /\ pc' = [d \in Callers |-> IF d = c THEN "idle"
                                            ELSE IF d \in Woken THEN "body" ELSE pc[d]]
          ELSE /\ mu' = RUnlockBy(c)
               /\ pc' = [pc EXCEPT ![c] = "idle"]

\* Put: s.data[key] = value; return nil
PutWrite(c) ==
    /\ pc[c] = "body"
    /\ call[c].kind = "Put"
    /\ data' = Store(call[c].key, call[c].val)
    /\ Return(c, NoValue, FALSE)

\* Get: value, ok := s.data[key]; if !ok { return value, error }; return value, nil
GetRead(c) ==
    /\ pc[c] = "body"
    /\ call[c].kind = "Get"
    /\ Return(c, MapIndex(call[c].key).value, ~MapIndex(call[c].key).ok)
    /\ UNCHANGED data

\* Update: if !s.Has(key) { return error }
UpdateHas(c) ==
    /\ pc[c] = "body"
    /\ call[c].kind = "Update"
    /\ IF Has(call[c].key)
          THEN /\ pc' = [pc EXCEPT ![c] = "write"]
               /\ UNCHANGED <<mu, call, hist, recording>>
          ELSE Return(c, NoValue, TRUE)
    /\ UNCHANGED data

\* An Update that returns nil without the assignment.
UpdateWriteNothing(c) ==
    /\ pc[c] = "write"
    /\ call[c].kind = "Update"
    /\ data' = data
    /\ Return(c, NoValue, FALSE)

\* Update: s.data[key] = value; return nil
UpdateWrite(c) ==
    /\ pc[c] = "write"
    /\ call[c].kind = "Update"
    /\ data' = Store(call[c].key, call[c].val)
    /\ Return(c, NoValue, FALSE)

\* Delete: value, ok := s.data[key]; if !ok { return value, error }
DeleteRead(c) ==
    /\ pc[c] = "body"
    /\ call[c].kind = "Delete"
    /\ IF MapIndex(call[c].key).ok
          THEN /\ pc' = [pc EXCEPT ![c] = "write"]
               /\ call' = [call EXCEPT ![c].value = MapIndex(call[c].key).value]
               /\ UNCHANGED <<mu, hist, recording>>
          ELSE Return(c, MapIndex(call[c].key).value, TRUE)
    /\ UNCHANGED data

\* Delete: delete(s.data, key); return value, nil
DeleteRemove(c) ==
    /\ pc[c] = "write"
    /\ call[c].kind = "Delete"
    /\ data' = Remove(call[c].key)
    /\ Return(c, call[c].value, FALSE)

\* The four operations of the store, each from its call to its return.
Put(c) ==
    \/ \E key \in Keys, val \in Values : Invoke(c, "Put", key, val)
    \/ PutWrite(c)

Get(c) ==
    \/ \E key \in Keys : Invoke(c, "Get", key, NoValue)
    \/ GetRead(c)

Update(c) ==
    \/ \E key \in Keys, val \in Values : Invoke(c, "Update", key, val)
    \/ UpdateHas(c)
    \/ UpdateWrite(c)

Delete(c) ==
    \/ \E key \in Keys : Invoke(c, "Delete", key, NoValue)
    \/ DeleteRead(c)
    \/ DeleteRemove(c)

Next ==
    \E c \in Callers :
        \/ Put(c)
        \/ Get(c)
        \/ Update(c)
        \/ Delete(c)
        \/ Lock(c)
        \/ LockWait(c)

Spec == Init /\ [][Next]_vars

\* The steps a caller takes once it holds the mutex, and a writer's entry
\* once the readers have left: the scheduler runs every goroutine that can run.
Run(c) ==
    \/ PutWrite(c)
    \/ GetRead(c)
    \/ UpdateHas(c)
    \/ UpdateWrite(c)
    \/ DeleteRead(c)
    \/ DeleteRemove(c)
    \/ LockWait(c)

\* Writers blocked in Lock behind a writer are served in turn (sync.Mutex
\* hands the mutex over to a waiter that has waited long).
LiveSpec ==
    /\ InitLive
    /\ [][Next]_vars
    /\ \A c \in Callers : WF_vars(Run(c)) /\ SF_vars(Lock(c))

(***************************************************************************)
(* Properties                                                              *)
(***************************************************************************)

\* A caller is inside its critical section: it holds the mutex.
InCS(c) == pc[c] \in {"body", "write"}

AllDone == Done = 1..Len(hist)

\* The contract of the four operations on a mapping m, one call at a time:
\* the mapping after the call, the value and the error it returns.
SeqApply(m, op) ==
    LET present == op.key \in DOMAIN m
        put == [k \in DOMAIN m \cup {op.key} |-> IF k = op.key THEN op.val ELSE m[k]]
        del == [k \in DOMAIN m \ {op.key} |-> m[k]]
    IN CASE op.kind = "Put" -> [m |-> put, value |-> NoValue, err |-> FALSE]
         [] op.kind = "Get" ->
               [m |-> m, value |-> IF present THEN m[op.key] ELSE Zero, err |-> ~present]
         [] op.kind = "Update" ->
               [m |-> IF present THEN put ELSE m, value |-> NoValue, err |-> ~present]
         [] op.kind = "Delete" ->
               [m |-> del, value |-> IF present THEN m[op.key] ELSE Zero, err |-> ~present]

\* The calls in left can be put one after another, starting from mapping m,
\* each after the calls that returned before it was made, so that every call
\* that has returned returned what the contract gives in its place, and so
\* that the mapping reached is the store's once every call has returned.  A
\* call that has not returned may have taken effect or not.
RECURSIVE Lin(_, _)
Lin(m, left) ==
    \/ /\ left \cap Done = {}
       /\ AllDone => m = data
    \/ \E i \in left :
          /\ hist[i].pre \cap left = {}
          /\ LET r == SeqApply(m, hist[i]) IN
              /\ hist[i].done => (r.value = hist[i].value /\ r.err = hist[i].err)
              /\ Lin(r.m, left \ {i})

\* C1: linearizability.  In every reachable state the recorded calls, with the
\* results they returned, are those of some sequential execution of the same
\* calls from the empty store that keeps the order of the calls that did not
\* overlap, and when all have returned that execution ends in the store's mapping.
C1_Linearizable == Lin(<<>>, 1..Len(hist))

\* Two calls overlapped: neither had returned when the other was made.
Overlap(i, j) == i # j /\ i \notin hist[j].pre /\ j \notin hist[i].pre

\* C1 witness: an Update and a Delete of the same present key overlapped and both
\* have returned, one of them without error.
C1_Witness ==
    \E i, j \in Done :
        /\ Overlap(i, j)
        /\ hist[i].kind = "Update" /\ hist[j].kind = "Delete"
        /\ hist[i].key = hist[j].key
        /\ ~hist[j].err
        /\ AllDone

\* C2: lock exclusion.  Two callers are inside their critical sections at the
\* same time only if both run Get; a Put, Update or Delete is alone in its.
C2_LockExclusion ==
    \A c, d \in Callers :
        (c # d /\ InCS(c) /\ InCS(d)) => (call[c].kind = "Get" /\ call[d].kind = "Get")

\* C2 witness: two Gets are inside their critical sections while a writer that
\* has called Lock waits for them to leave.
C2_Witness ==
    \E c, d, e \in Callers :
        /\ c # d
        /\ InCS(c) /\ call[c].kind = "Get"
        /\ InCS(d) /\ call[d].kind = "Get"
        /\ pc[e] = "LockWait"

\* Call i had returned when call j was made.
Before(i, j) == i \in hist[j].pre

\* Call n may have changed the mapping at key.
Mutates(n, key) ==
    /\ hist[n].key = key
    /\ hist[n].kind \in {"Put", "Update", "Delete"}
    /\ ~(hist[n].done /\ hist[n].err)

Calls == 1..Len(hist)

\* Caller c takes a step of its operation while holding the mutex.
Steps(c) == InCS(c) /\ pc'[c] # pc[c]

\* Caller c returns in this step; Result(c) is what it returns.
Returns(c) == InCS(c) /\ pc'[c] = "idle"

Result(c) == hist'[call[c].h]

\* C3: Update never creates a key.  No step of an Update changes the set of
\* present keys, and an Update whose existence check finds its key absent
\* returns at once with the error, the mapping unchanged.
C3_UpdateNeverCreates ==
    [][\A c \in Callers :
          (call[c].kind = "Update" /\ Steps(c)) =>
              /\ DOMAIN data' = DOMAIN data
              /\ (pc[c] = "body" /\ call[c].key \notin DOMAIN data) =>
                     (Returns(c) /\ Result(c).err /\ data' = data)]_vars

\* C3 witness: an Update has returned the error, its key is absent and another
\* key is present.
C3_Witness ==
    \E i \in Done :
        /\ hist[i].kind = "Update" /\ hist[i].err
        /\ hist[i].key \notin DOMAIN data
        /\ DOMAIN data # {}

\* C4: Put-then-Get.  A Get of k made after a Put(k, v) had returned, with
\* every other call that may change k returned before that Put was made or
\* made after the Get returned, succeeds and returns v.
C4_PutThenGet ==
    \A i, j \in Done :
        (/\ hist[i].kind = "Put" /\ hist[j].kind = "Get"
         /\ hist[i].key = hist[j].key
         /\ Before(i, j)
         /\ \A n \in Calls \ {i, j} :
                Mutates(n, hist[i].key) => (Before(n, i) \/ Before(j, n)))
        => (~hist[j].err /\ hist[j].value = hist[i].val)

\* C4 witness: a Get returned the value of a Put that overwrote another value.
C4_Witness ==
    \E n, i, j \in Done :
        /\ hist[n].kind = "Put" /\ hist[i].kind = "Put" /\ hist[j].kind = "Get"
        /\ hist[n].key = hist[i].key /\ hist[i].key = hist[j].key
        /\ hist[n].val # hist[i].val
        /\ Before(n, i) /\ Before(i, j)
        /\ hist[j].value = hist[i].val

\* Every call other than i and j that may change key returned before i was
\* made or was made after j returned.
Undisturbed(i, j, key) ==
    \A n \in Calls \ {i, j} : Mutates(n, key) => (Before(n, i) \/ Before(j, n))

\* C5: Delete removes and returns.  A Delete of k made after a call that set k
\* to v had returned, no other change of k in between, succeeds and returns v;
\* after a Delete of k has succeeded k is absent unless a Put of k had not
\* returned before it was made; and a Get of k made after it returned, no Put
\* of k in between, fails.
C5_DeleteRemovesAndReturns ==
    \A i \in Done :
        hist[i].kind = "Delete" =>
            /\ \A p \in Done :
                  (/\ hist[p].kind \in {"Put", "Update"} /\ ~hist[p].err
                   /\ hist[p].key = hist[i].key
                   /\ Before(p, i)
                   /\ Undisturbed(p, i, hist[i].key))
                  => (~hist[i].err /\ hist[i].value = hist[p].val)
            /\ (/\ ~hist[i].err
                /\ \A n \in Calls :
                      (hist[n].kind = "Put" /\ hist[n].key = hist[i].key) => Before(n, i))
               => hist[i].key \notin DOMAIN data
            /\ \A g \in Done :
                  (/\ ~hist[i].err
                   /\ hist[g].kind = "Get" /\ hist[g].key = hist[i].key
                   /\ Before(i, g)
                   /\ \A n \in Calls :
                         (hist[n].kind = "Put" /\ hist[n].key = hist[i].key)
                             => (Before(n, i) \/ Before(g, n)))
                  => hist[g].err

\* C5 witness: a Put, then a Delete that returned the value put, then a Get
\* that failed.
C5_Witness ==
    \E p, i, g \in Done :
        /\ hist[p].kind = "Put" /\ hist[i].kind = "Delete" /\ hist[g].kind = "Get"
        /\ hist[p].key = hist[i].key /\ hist[i].key = hist[g].key
        /\ Before(p, i) /\ Before(i, g)
        /\ ~hist[i].err /\ hist[i].value = hist[p].val /\ hist[p].val # Zero
        /\ hist[g].err

\* C6: double delete fails.  A Delete whose lookup finds its key absent returns
\* at once with the error, the mapping unchanged; and the second of two
\* Deletes of k, made after the first returned with no Put of k in between, fails.
C6_DoubleDeleteFails ==
    /\ [](\A i \in Calls, j \in Done :
            (/\ hist[i].kind = "Delete" /\ hist[j].kind = "Delete"
             /\ hist[i].key = hist[j].key
             /\ Before(i, j)
             /\ \A n \in Calls :
                   (hist[n].kind = "Put" /\ hist[n].key = hist[i].key)
                       => (Before(n, i) \/ Before(j, n)))
            => hist[j].err)
    /\ [][\A c \in Callers :
             (/\ call[c].kind = "Delete" /\ pc[c] = "body" /\ Steps(c)
              /\ call[c].key \notin DOMAIN data)
             => (Returns(c) /\ Result(c).err /\ data' = data)]_vars

\* C6 witness: a Delete succeeded and a second Delete of the key, made after
\* it returned, failed.
C6_Witness ==
    \E i, j \in Done :
        /\ hist[i].kind = "Delete" /\ hist[j].kind = "Delete"
        /\ hist[i].key = hist[j].key
        /\ Before(i, j)
        /\ ~hist[i].err /\ hist[j].err

\* C7: Get is a pure read.  The step in which a Get reads the map leaves the
\* mapping as it was, returns the error exactly if the key is absent and the
\* stored value if it is present; and a Get of a key of which no Put was made
\* before the Get returned fails.
C7_GetPureRead ==
    /\ [](\A g \in Done :
            (/\ hist[g].kind = "Get"
             /\ \A n \in Calls :
                   (hist[n].kind = "Put" /\ hist[n].key = hist[g].key) => Before(g, n))
            => hist[g].err)
    /\ [][\A c \in Callers :
             (call[c].kind = "Get" /\ Steps(c)) =>
                 /\ Returns(c)
                 /\ data' = data
                 /\ Result(c).err = (call[c].key \notin DOMAIN data)
                 /\ call[c].key \in DOMAIN data => Result(c).value = data[call[c].key]]_vars

\* C7 witness: a Get of a key stored with the zero value has succeeded, and a
\* Get of an absent key has failed.
C7_Witness ==
    \E g, f \in Done :
        /\ hist[g].kind = "Get" /\ ~hist[g].err /\ hist[g].value = Zero
        /\ hist[f].kind = "Get" /\ hist[f].err

\* C8: error taxonomy.  A Put returns no error; a Get, Update or Delete
\* returns the error exactly if its key is absent in the step in which it
\* takes effect; and a call that returns the error leaves the mapping as it was.
C8_ErrorTaxonomy ==
    [][\A c \in Callers :
          Returns(c) =>
              /\ call[c].kind = "Put" => ~Result(c).err
              /\ call[c].kind # "Put" => (Result(c).err = (call[c].key \notin DOMAIN data))
              /\ Result(c).err => data' = data]_vars

\* C8 witness: a Put has returned, another call has failed and a third has
\* succeeded on a present key.
C8_Witness ==
    \E p, f, g \in Done :
        /\ hist[p].kind = "Put"
        /\ hist[f].kind # "Put" /\ hist[f].err
        /\ hist[g].kind \in {"Update", "Delete"} /\ ~hist[g].err

\* A writer holds the lock or has called Lock and waits for the readers.
WriterAhead ==
    \E w \in Callers : pc[w] \in {"LockWait", "body", "write"} /\ call[w].kind # "Get"

\* C10 as stated: no Get waits for the lock while another Get is inside its
\* critical section.
C10_GetsAlwaysEnter ==
    \A c, d \in Callers :
        ~(pc[c] = "RLockWait" /\ InCS(d) /\ call[d].kind = "Get")

\* C10 amended: a Get waits for the lock only while a writer holds it or has
\* called Lock and waits for it; with no such writer a Get is inside its
\* critical section whatever the number of Gets inside theirs.
C10_GetsWaitOnlyForWriter ==
    \A c \in Callers : pc[c] = "RLockWait" => WriterAhead

\* C10 witness: every caller is a Get inside its critical section.
C10_Witness ==
    /\ \A c \in Callers : InCS(c) /\ call[c].kind = "Get"
    /\ mu.w = {}

\* C9: no indefinite blocking.  Every call returns, having acquired and
\* released the lock, whatever calls keep being made; and while a call is in
\* progress some caller can take a step.
C9_NoIndefiniteBlocking ==
    /\ \A c \in Callers : (pc[c] # "idle") ~> (pc[c] = "idle")
    /\ []((\E c \in Callers : pc[c] # "idle") =>
             (\E c \in Callers : ENABLED (Run(c) \/ Lock(c))))

\* C9 witness: a writer waits for a reader to leave while a second writer
\* waits behind it.
C9_Witness ==
    \E w, x, r \in Callers :
        /\ pc[w] = "LockWait"
        /\ pc[x] = "Lock"
        /\ InCS(r) /\ call[r].kind = "Get"

\* No call other than i that may change key overlaps i or was made after it.
LastOn(i, key) == \A n \in Calls \ {i} : Mutates(n, key) => Before(n, i)

\* C11: no lost concurrent Puts.  Of Puts that overlapped on distinct keys,
\* each has returned without error, and once they have returned each key holds
\* the value put to it, which every Get of it made afterwards returns, as long
\* as no other call that may change the key is made.
C11_NoLostPuts ==
    \A i \in Done :
        (hist[i].kind = "Put" /\ LastOn(i, hist[i].key)) =>
            /\ ~hist[i].err
            /\ hist[i].key \in DOMAIN data
            /\ data[hist[i].key] = hist[i].val
            /\ \A g \in Done :
                  (hist[g].kind = "Get" /\ hist[g].key = hist[i].key /\ Before(i, g))
                  => (~hist[g].err /\ hist[g].value = hist[i].val)

\* C11 witness: two Puts on distinct keys overlapped, both have returned, and a
\* Get made afterwards has returned the value of the one that wrote first.
C11_Witness ==
    \E i, j, g \in Done :
        /\ hist[i].kind = "Put" /\ hist[j].kind = "Put" /\ hist[g].kind = "Get"
        /\ Overlap(i, j) /\ i < j
        /\ hist[i].key # hist[j].key
        /\ Before(i, g) /\ Before(j, g)
        /\ hist[g].key = hist[i].key /\ hist[g].value = hist[i].val /\ ~hist[g].err
        /\ DOMAIN data = Keys

\* Call n was made after both i and j had returned, or returned before both
\* were made.
Apart(n, i, j) ==
    \/ Before(n, i) /\ Before(n, j)
    \/ Before(i, n) /\ Before(j, n)

\* C12: a Put racing with a Get.  A Get of k that overlapped a Put(k, new), the
\* only other calls that may change k being none, or one Put(k, old) that had
\* returned before both, returns new, or else the error (respectively old);
\* and two Gets of k that overlapped, no call that may change k overlapping
\* either, return the same.
C12_PutRacingGet ==
    /\ \A p \in Calls, g \in Done :
          (/\ hist[p].kind = "Put" /\ hist[g].kind = "Get"
           /\ hist[p].key = hist[g].key
           /\ Overlap(p, g))
          => /\ (\A n \in Calls \ {p} : ~Mutates(n, hist[g].key))
                  => \/ hist[g].err /\ hist[g].value = Zero
                     \/ ~hist[g].err /\ hist[g].value = hist[p].val
             /\ \A o \in Done :
                  (/\ hist[o].kind = "Put" /\ hist[o].key = hist[g].key
                   /\ Before(o, p) /\ Before(o, g)
                   /\ \A n \in Calls \ {o, p} : ~Mutates(n, hist[g].key))
                  => /\ ~hist[g].err
                     /\ hist[g].value \in {hist[o].val, hist[p].val}
    /\ \A g, f \in Done :
          (/\ hist[g].kind = "Get" /\ hist[f].kind = "Get"
           /\ hist[g].key = hist[f].key
           /\ Overlap(g, f)
           /\ \A n \in Calls : Mutates(n, hist[g].key) => Apart(n, g, f))
          => (hist[g].value = hist[f].value /\ hist[g].err = hist[f].err)

\* C12 witness: a Get overlapped a Put that overwrote another value, and
\* returned the old value.
C12_Witness ==
    \E o, p, g \in Done :
        /\ hist[o].kind = "Put" /\ hist[p].kind = "Put" /\ hist[g].kind = "Get"
        /\ hist[o].key = hist[g].key /\ hist[p].key = hist[g].key
        /\ Before(o, p) /\ Before(o, g) /\ Overlap(p, g)
        /\ hist[o].val # hist[p].val
        /\ hist[g].value = hist[o].val /\ hist[g].value # Zero

\* C12, second case: two Gets of a present key overlapped and returned its value.
C12_GetsAgree ==
    \E o, g, f \in Done :
        /\ hist[o].kind = "Put" /\ hist[g].kind = "Get" /\ hist[f].kind = "Get"
        /\ hist[o].key = hist[g].key /\ hist[g].key = hist[f].key
        /\ Overlap(g, f)
        /\ ~hist[g].err /\ ~hist[f].err

\* C13: idempotence of Put.  The write of a Put(k, v) made when k already holds
\* v, as it does after a Put(k, v), leaves the mapping as it was: the second
\* and later of repeated Put(k, v) change nothing.
C13_PutIdempotent ==
    [][\A c \in Callers :
          (/\ call[c].kind = "Put" /\ Steps(c)
           /\ call[c].key \in DOMAIN data
           /\ data[call[c].key] = call[c].val)
          => data' = data]_vars

\* C13 witness: a Put(k, v) with v not the zero value has been repeated, one
\* call after the other, and the other key is present.
C13_Witness ==
    \E p, q \in Done :
        /\ hist[p].kind = "Put" /\ hist[q].kind = "Put"
        /\ hist[p].key = hist[q].key /\ hist[p].val = hist[q].val
        /\ hist[p].val # Zero
        /\ Before(p, q)
        /\ DOMAIN data = Keys
        /\ data[hist[p].key] = hist[p].val

\* C14: Update-then-Get.  An Update(k, v2) made after a Put of k had returned,
\* no other change of k in between, succeeds; and a Get of k made after an
\* Update(k, v2) had succeeded, no other change of k in between, succeeds and
\* returns v2.
C14_UpdateThenGet ==
    \A u \in Done :
        hist[u].kind = "Update" =>
            /\ \A p \in Done :
                  (/\ hist[p].kind = "Put" /\ hist[p].key = hist[u].key
                   /\ Before(p, u)
                   /\ Undisturbed(p, u, hist[u].key))
                  => ~hist[u].err
            /\ \A g \in Done :
                  (/\ ~hist[u].err
                   /\ hist[g].kind = "Get" /\ hist[g].key = hist[u].key
                   /\ Before(u, g)
                   /\ Undisturbed(u, g, hist[u].key))
                  => (~hist[g].err /\ hist[g].value = hist[u].val)

\* C14 witness: a Put of v1, then an Update to another value v2, then a Get
\* that returned v2.
C14_Witness ==
    \E p, u, g \in Done :
        /\ hist[p].kind = "Put" /\ hist[u].kind = "Update" /\ hist[g].kind = "Get"
        /\ hist[p].key = hist[u].key /\ hist[u].key = hist[g].key
        /\ Before(p, u) /\ Before(u, g)
        /\ hist[p].val # hist[u].val
        /\ ~hist[u].err /\ ~hist[g].err /\ hist[g].value = hist[u].val

\* C15: adapter error translation.  The response to a get, update or delete
\* request whose call of the store returned the error is not a confirmation
\* under http.StatusOK, and a confirmation is given only if the call succeeded.
C15_AdapterTranslatesErrors ==
    \A i \in Done :
        hist[i].kind \in {"Get", "Update", "Delete"} =>
            (hist[i].err <=> hist[i].resp.status # "StatusOK")

\* Caller c holds the mutex in shared, or in exclusive, mode.
HoldsShared(c) == c \in mu.readers

HoldsExclusive(c) == mu.w = {c} /\ mu.readers = {}

\* The next step of caller c writes the map; or reads it, Has included.
Writing(c) ==
    \/ call[c].kind = "Put" /\ pc[c] = "body"
    \/ call[c].kind \in {"Update", "Delete"} /\ pc[c] = "write"

Reading(c) == InCS(c) /\ ~Writing(c)

\* C16: every access to the map is made under the lock.  A caller about to
\* read the map, through Has or directly, holds the mutex in shared or in
\* exclusive mode, and a caller about to write it holds it in exclusive mode.
C16_AccessUnderLock ==
    \A c \in Callers :
        /\ Reading(c) => (HoldsShared(c) \/ HoldsExclusive(c))
        /\ Writing(c) => HoldsExclusive(c)

\* C16 witness: an Update is about to run Has, holding the mutex in exclusive
\* mode, while a Get and another writer wait for it.
C16_Witness ==
    \E c, d, e \in Callers :
        /\ call[c].kind = "Update" /\ pc[c] = "body" /\ HoldsExclusive(c)
        /\ pc[d] = "RLockWait"
        /\ pc[e] = "Lock"

\* Call p is a Put of key that had returned before the overlapping calls u, an
\* Update of key, and d, a Delete of it, were made; no other call may change key.
UpdateRacesDelete(p, u, d, key) ==
    /\ hist[p].kind = "Put" /\ hist[u].kind = "Update" /\ hist[d].kind = "Delete"
    /\ hist[p].key = key /\ hist[u].key = key /\ hist[d].key = key
    /\ Before(p, u) /\ Before(p, d)
    /\ Overlap(u, d)
    /\ \A n \in Calls \ {p, u, d} : ~Mutates(n, key)

\* C17: check-then-act atomicity of Update.  An Update that has found its key
\* present still finds it present, under its exclusive hold of the lock, when
\* it writes.  When Update(k, v) and Delete(k) overlapped on a key put before
\* them, either both succeeded and Delete returned v, or Delete returned the
\* value put and Update failed; and k is absent once both have returned.
C17_UpdateDeleteAtomic ==
    /\ \A c \in Callers :
          (call[c].kind = "Update" /\ pc[c] = "write") =>
              (Has(call[c].key) /\ HoldsExclusive(c))
    /\ \A p, u, d \in Done : \A key \in Keys :
          UpdateRacesDelete(p, u, d, key) =>
              /\ \/ /\ ~hist[u].err /\ ~hist[d].err
                    /\ hist[d].value = hist[u].val
                 \/ /\ hist[u].err /\ ~hist[d].err
                    /\ hist[d].value = hist[p].val
              /\ key \notin DOMAIN data

\* C17 witness: Update(k, v) and Delete(k) overlapped on a key put with another
\* value, and Update failed while Delete returned the value put.
C17_Witness ==
    \E p, u, d \in Done : \E key \in Keys :
        /\ UpdateRacesDelete(p, u, d, key)
        /\ hist[u].val # hist[p].val
        /\ hist[u].err
        /\ hist[d].value = hist[p].val

\* Update(k, v) and Delete(k) overlapped on a key put with another value, both
\* succeeded and Delete returned v.
C17_UpdateFirst ==
    \E p, u, d \in Done : \E key \in Keys :
        /\ UpdateRacesDelete(p, u, d, key)
        /\ hist[u].val # hist[p].val
        /\ ~hist[u].err
        /\ hist[d].value = hist[u].val

\* Key k is present, with the same value, after the step exactly as before it.
SameAt(k) ==
    /\ k \in DOMAIN data <=> k \in DOMAIN data'
    /\ k \in DOMAIN data => data'[k] = data[k]

\* C18: per-key frame.  Every step of a Put, an Update or a Delete on key k,
\* whether the call succeeds or fails, leaves the presence and the value of
\* every other key as they were.
C18_PerKeyFrame ==
    [][\A c \in Callers :
          (Steps(c) /\ call[c].kind \in {"Put", "Update", "Delete"}) =>
              \A k \in Keys \ {call[c].key} : SameAt(k)]_vars

\* C18 witness: after a Put of one key had returned, a Put and then a
\* successful Delete were made on the other key, and the first key is the only
\* one present, with the value put.
C18_Witness ==
    \E i, j, n \in Done :
        /\ hist[i].kind = "Put" /\ hist[j].kind = "Put" /\ hist[n].kind = "Delete"
        /\ hist[j].key # hist[i].key /\ hist[n].key = hist[j].key
        /\ Before(i, j) /\ Before(j, n)
        /\ ~hist[n].err
        /\ DOMAIN data = {hist[i].key}
        /\ data[hist[i].key] = hist[i].val

\* C19: the lock is released on every path.  A caller with no operation in
\* progress holds the mutex in neither mode, whether its last call succeeded
\* or failed, so when no operation is in progress the mutex has no reader and
\* no writer and the next call of any caller acquires it at once.
C19_LockReleased ==
    /\ \A c \in Callers : pc[c] = "idle" => (c \notin mu.w /\ c \notin mu.readers)
    /\ (\A c \in Callers : pc[c] = "idle") =>
          /\ mu = NewKVStore.mu
          /\ \A c \in Callers : LockCall(c).pc = "body" /\ RLockCall(c).pc = "body"

\* C19 witness: a Get, an Update and a Delete have each returned the error,
\* and no operation is in progress.
C19_Witness ==
    /\ \A c \in Callers : pc[c] = "idle"
    /\ \A kind \in {"Get", "Update", "Delete"} :
          \E i \in Done : hist[i].kind = kind /\ hist[i].err

====
